---- MODULE Spec2Model ----
(***************************************************************************)
(* Model of src/modules/wasm/collatz.c: the brute-force search for the     *)
(* number with the longest Collatz chain.                                  *)
(*                                                                         *)
(* Every value of the program is a C `unsigned int` (32 bits).  TLC's own  *)
(* integers are 32-bit signed, so an unsigned int v is held as two 16-bit  *)
(* limbs <<hi, lo>> with v = hi * 2^16 + lo, and the arithmetic of the     *)
(* program (3 * term + 1, term / 2, ++, <, >) is done limb by limb, modulo *)
(* 2^32 exactly as the C code does it.                                     *)
(***************************************************************************)
EXTENDS Integers, Sequences, FiniteSets, TLC

VARIABLES
    entry,            \* which exported function the caller invoked
    pc,               \* position in the code: "for", "while", "call", "done"
    upperBound,       \* determineLongestChain: parameter
    i,                \* determineLongestChain: loop index
    calculatedLength, \* determineLongestChain: local
    lgChain,          \* determineLongestChain: the malloc'ed pair <<number, length>>
    number,           \* collatzChainLength: parameter
    n,                \* collatzChainLength: current term
    termsCount,       \* collatzChainLength: running count
    term,             \* nextTerm: parameter (direct call)
    ret,              \* value returned to a direct caller of collatzChainLength / nextTerm
    ncalls            \* history: how many times collatzChainLength has been called

vars == <<entry, pc, upperBound, i, calculatedLength, lgChain,
          number, n, termsCount, term, ret, ncalls>>

----------------------------------------------------------------------------
(* unsigned int, as two 16-bit limbs *)

\* 2^16: one limb; two limbs are the 32 bits of unsigned int.
Base == 65536

\* Bounds of the model.
MaxUpperBound == 20
MaxNumber == 40
TailLen == 3
\* No chain of the model is MaxTerms long: the cap stops a loop that never ends.
MaxTerms == 1000

\* unsigned int upperBound = 1000000;
DefaultUpperBound == 1000000

\* The unsigned int with value k, for 0 <= k < 2^31.
U32(k) == <<k \div Base, k % Base>>

Zero == <<0, 0>>
One == <<0, 1>>
\* UINT_MAX = 2^32 - 1
MaxUInt == <<Base - 1, Base - 1>>

\* a < b on unsigned int
Lt(a, b) == a[1] < b[1] \/ (a[1] = b[1] /\ a[2] < b[2])

\* a > 1 on unsigned int
Gt1(a) == a[1] > 0 \/ a[2] > 1

\* a + 1 on unsigned int (wraps to 0 after UINT_MAX)
Inc(a) ==
    IF a[2] = Base - 1
    THEN <<(a[1] + 1) % Base, 0>>
    ELSE <<a[1], a[2] + 1>>

\* The mathematical value of 3 * t + 1, in three limbs <<carry, hi, lo>>:
\* it fits unsigned int exactly when carry = 0.
Mul3Add1Wide(t) ==
    LET lo == 3 * t[2] + 1
        hi == 3 * t[1] + (lo \div Base)
    IN  <<hi \div Base, hi % Base, lo % Base>>

\* An unsigned int's value as a TLC integer; only for values below 2^31.
Val(a) == a[1] * Base + a[2]

----------------------------------------------------------------------------
(* The pure functions *)

\* unsigned int nextTerm(unsigned int term)
nextTerm(t) ==
    IF t[2] % 2 = 1
    THEN LET w == Mul3Add1Wide(t) IN <<w[2], w[3]>>
    ELSE <<t[1] \div 2, (t[1] % 2) * (Base \div 2) + (t[2] \div 2)>>

\* The while loop of collatzChainLength on the pair s = <<n, termsCount>>:
\* WhileBody is one test of the condition and, if it holds, one run of the
\* body; once n <= 1 it changes nothing.  ChainLoop is the loop, unrolled 16
\* times per level of recursion to keep TLC's evaluation stack shallow.
WhileBody(s) ==
    IF Gt1(s[1]) THEN <<nextTerm(s[1]), Inc(s[2])>> ELSE s

WhileBody4(s) == WhileBody(WhileBody(WhileBody(WhileBody(s))))

WhileBody16(s) == WhileBody4(WhileBody4(WhileBody4(WhileBody4(s))))

RECURSIVE ChainLoop(_)
ChainLoop(s) ==
    IF Gt1(s[1]) THEN ChainLoop(WhileBody16(s)) ELSE s

\* unsigned int collatzChainLength(unsigned int number)
collatzChainLength(num) ==
    IF Gt1(num) THEN ChainLoop(<<num, One>>)[2] ELSE One

----------------------------------------------------------------------------
(* Initial states: one call of an exported function *)

\* Arguments a direct caller passes to collatzChainLength and nextTerm:
\* every small number, and numbers whose chain leaves the 32-bit range.
ArgInputs ==
    {U32(k) : k \in 1..MaxNumber}
    \cup {U32(113383), U32(159487), U32(837799), U32(1431655764),
          U32(1431655765), U32(1431655767), U32(2147483647),
          <<Base \div 2, 0>>, <<Base \div 2, 1>>,
          <<Base - 1, Base - 2>>, MaxUInt}

InitDetermineLongestChain ==
    /\ entry = "determineLongestChain"
    /\ upperBound \in {U32(k) : k \in 0..MaxUpperBound}
    /\ i = Zero
    /\ calculatedLength = Zero
    /\ lgChain = <<One, One>>
    /\ pc = "for"
    /\ number = Zero /\ n = Zero /\ termsCount = Zero
    /\ term = Zero /\ ret = Zero
    /\ ncalls = Zero

InitCollatzChainLength ==
    /\ entry = "collatzChainLength"
    /\ number \in ArgInputs
    /\ n = number
    /\ termsCount = One
    /\ pc = "while"
    /\ upperBound = Zero /\ i = Zero /\ calculatedLength = Zero
    /\ lgChain = <<Zero, Zero>>
    /\ term = Zero /\ ret = Zero
    /\ ncalls = One

InitNextTerm ==
    /\ entry = "nextTerm"
    /\ term \in ArgInputs
    /\ pc = "call"
    /\ upperBound = Zero /\ i = Zero /\ calculatedLength = Zero
    /\ lgChain = <<Zero, Zero>>
    /\ number = Zero /\ n = Zero /\ termsCount = Zero
    /\ ret = Zero
    /\ ncalls = Zero

Init == InitDetermineLongestChain \/ InitCollatzChainLength \/ InitNextTerm

\* Two runs of determineLongestChain too long to follow from their start,
\* taken up at the head of the for loop late in the run.  lgChain holds what
\* the program itself has computed by then (the compiled source, run on
\* 1..i): i calls were made, the last one on i.
\*  - upperBound = 159487, at i = 159486: the next candidate, 159487, is the
\*    first whose chain leaves the 32-bit range;
\*  - upperBound = UINT_MAX, at i = UINT_MAX - TailLen: the last candidates
\*    of the largest upper bound.
InitMidRun ==
    /\ entry = "determineLongestChain"
    /\ \/ /\ upperBound = U32(159487)
          /\ i = U32(159486)
          /\ lgChain = <<U32(156159), U32(383)>>
       \/ /\ upperBound = MaxUInt
          /\ i = <<Base - 1, Base - 1 - TailLen>>
          /\ lgChain = <<<<54724, 30971>>, U32(811)>>
    /\ calculatedLength = collatzChainLength(i)
    /\ pc = "for"
    /\ number = Zero /\ n = Zero /\ termsCount = Zero
    /\ term = Zero /\ ret = Zero
    /\ ncalls = i

----------------------------------------------------------------------------
(* Actions *)

\* The for loop's condition with <= for <.
ForCondLe == Lt(i, upperBound) \/ i = upperBound

\* The for loop's condition: i < upperBound
ForCond == Lt(i, upperBound)

\* The condition under which collatzChainLength runs its loop body:
\* if (number > 1) while (n > 1)
WhileCond == Gt1(number) /\ Gt1(n)

\* ForCall passing i, not i + 1, to collatzChainLength.
ForCallIndex ==
    /\ pc = "for"
    /\ Lt(i, upperBound)
    /\ number' = i
    /\ n' = i
    /\ termsCount' = One
    /\ ncalls' = Inc(ncalls)
    /\ pc' = "while"
    /\ UNCHANGED <<entry, upperBound, i, calculatedLength, lgChain, term, ret>>

\* for (...; i < upperBound; ...) calculatedLength = collatzChainLength(i+1):
\* the call, up to the entry of the callee's loop.
ForCall ==
    /\ pc = "for"
    /\ ForCond
    /\ number' = Inc(i)
    /\ n' = Inc(i)
    /\ termsCount' = One
    /\ ncalls' = Inc(ncalls)
    /\ pc' = "while"
    /\ UNCHANGED <<entry, upperBound, i, calculatedLength, lgChain, term, ret>>

\* WhileStep that drops nextTerm's result: n is never assigned.
WhileStepKeepsN ==
    /\ pc = "while"
    /\ WhileCond
    /\ Lt(termsCount, U32(MaxTerms))
    /\ n' = n
    /\ termsCount' = Inc(termsCount)
    /\ UNCHANGED <<entry, pc, upperBound, i, calculatedLength, lgChain,
                   number, term, ret, ncalls>>

\* One iteration of the loop body: n = nextTerm(n); ++termsCount;
\* (the code has no cap; MaxTerms only stops a run that would never end).
WhileStep ==
    /\ pc = "while"
    /\ WhileCond
    /\ Lt(termsCount, U32(MaxTerms))
    /\ n' = nextTerm(n)
    /\ termsCount' = Inc(termsCount)
    /\ UNCHANGED <<entry, pc, upperBound, i, calculatedLength, lgChain,
                   number, term, ret, ncalls>>

\* ForCompare with the comparison turned round: calculatedLength < lgChain[1].
ForCompareLess ==
    /\ pc = "while"
    /\ entry = "determineLongestChain"
    /\ ~(Gt1(number) /\ Gt1(n))
    /\ calculatedLength' = termsCount
    /\ lgChain' = IF Lt(termsCount, lgChain[2])
                  THEN <<Inc(i), termsCount>>
                  ELSE lgChain
    /\ i' = Inc(i)
    /\ number' = Zero /\ n' = Zero /\ termsCount' = Zero
    /\ pc' = "for"
    /\ UNCHANGED <<entry, upperBound, term, ret, ncalls>>

\* ForCompare with >= for >: a chain of equal length replaces the best.
ForCompareGe ==
    /\ pc = "while"
    /\ entry = "determineLongestChain"
    /\ ~(Gt1(number) /\ Gt1(n))
    /\ calculatedLength' = termsCount
    /\ lgChain' = IF ~Lt(termsCount, lgChain[2])
                  THEN <<Inc(i), termsCount>>
                  ELSE lgChain
    /\ i' = Inc(i)
    /\ number' = Zero /\ n' = Zero /\ termsCount' = Zero
    /\ pc' = "for"
    /\ UNCHANGED <<entry, upperBound, term, ret, ncalls>>

\* collatzChainLength returns into the for loop (its locals are gone): the
\* assignment, the comparison and update of lgChain, and ++i.
ForCompare ==
    /\ pc = "while"
    /\ entry = "determineLongestChain"
    /\ ~WhileCond
    /\ calculatedLength' = termsCount
    /\ lgChain' = IF Lt(lgChain[2], termsCount)
                  THEN <<Inc(i), termsCount>>
                  ELSE lgChain
    /\ i' = Inc(i)
    /\ number' = Zero /\ n' = Zero /\ termsCount' = Zero
    /\ pc' = "for"
    /\ UNCHANGED <<entry, upperBound, term, ret, ncalls>>

\* The for loop ends: return lgChain.
ReturnLgChain ==
    /\ pc = "for"
    /\ ~ForCond
    /\ pc' = "done"
    /\ UNCHANGED <<entry, upperBound, i, calculatedLength, lgChain,
                   number, n, termsCount, term, ret, ncalls>>

\* collatzChainLength returns termsCount to a direct caller.
ReturnTermsCount ==
    /\ pc = "while"
    /\ entry = "collatzChainLength"
    /\ ~WhileCond
    /\ ret' = termsCount
    /\ pc' = "done"
    /\ UNCHANGED <<entry, upperBound, i, calculatedLength, lgChain,
                   number, n, termsCount, term, ncalls>>

\* A direct call of nextTerm(term).
CallNextTerm ==
    /\ pc = "call"
    /\ entry = "nextTerm"
    /\ ret' = nextTerm(term)
    /\ pc' = "done"
    /\ UNCHANGED <<entry, upperBound, i, calculatedLength, lgChain,
                   number, n, termsCount, term, ncalls>>

Next ==
    \/ ForCall
    \/ WhileStep
    \/ ForCompare
    \/ ReturnLgChain
    \/ ReturnTermsCount
    \/ CallNextTerm

Spec == Init /\ [][Next]_vars

\* The same program, with the two long runs taken up late as well.
InitWithMidRun == Init \/ InitMidRun
SpecMidRun == InitWithMidRun /\ [][Next]_vars

\* The program is one thread that runs to completion: a step that can be
\* taken is taken.
FairSpec == InitWithMidRun /\ [][Next]_vars /\ WF_vars(Next)

----------------------------------------------------------------------------
(* Properties *)

\* determineLongestChain has returned.
SearchDone == entry = "determineLongestChain" /\ pc = "done"

NoWrapUpToDefault ==
    ( /\ entry = "determineLongestChain"
      /\ ~Lt(U32(DefaultUpperBound), upperBound)
      /\ pc = "while" /\ WhileCond
      /\ n[2] % 2 = 1 )
    => Mul3Add1Wide(n)[1] = 0

UpperBoundNeverCandidate ==
    entry = "determineLongestChain" =>
        /\ pc = "while" => Lt(number, upperBound)
        /\ pc = "done" => lgChain[1] # upperBound

\* C5: of the candidates that share the maximum chain length the smallest is
\* returned, and lgChain is replaced only by a strictly longer chain.
FirstLongestWins ==
    /\ [](SearchDone =>
            \A k \in 1..Val(upperBound) :
                collatzChainLength(U32(k)) = lgChain[2]
                    => ~Lt(U32(k), lgChain[1]))
    /\ [][lgChain' # lgChain => Lt(lgChain[2], lgChain'[2])]_vars

\* The search has returned and another candidate has the chain length of
\* the returned one.
TieAtMaximum ==
    /\ SearchDone
    /\ \E k \in 1..Val(upperBound) :
           /\ U32(k) # lgChain[1]
           /\ collatzChainLength(U32(k)) = lgChain[2]

\* C6: determineLongestChain(0) calls collatzChainLength not once and
\* returns <<1, 1>>; determineLongestChain(1) returns <<1, 1>>.
ZeroAndOneReturnInitialPair ==
    /\ (entry = "determineLongestChain" /\ upperBound = Zero) => ncalls = Zero
    /\ (SearchDone /\ upperBound = Zero) => lgChain = <<One, One>>
    /\ (SearchDone /\ upperBound = One) => lgChain = <<One, One>>

\* determineLongestChain(0) has returned.
ZeroUpperBoundDone == SearchDone /\ upperBound = Zero /\ i = Zero

\* C8: nextTerm(t), t >= 1, is t / 2 for even t and the mathematical value
\* 3 * t + 1 for odd t.
NextTermExact ==
    (entry = "nextTerm" /\ pc = "done" /\ term # Zero) =>
        IF term[2] % 2 = 1
        THEN Mul3Add1Wide(term) = <<0, ret[1], ret[2]>>
        ELSE /\ 2 * ret[1] + ((2 * ret[2]) \div Base) = term[1]
             /\ (2 * ret[2]) % Base = term[2]

\* C9: collatzChainLength(1) = 1; for n > 1, collatzChainLength(n) =
\* 1 + collatzChainLength(nextTerm(n)); the result is >= 1 and the last term
\* counted is the first 1 of the sequence.
ChainLengthCountsToOne ==
    /\ collatzChainLength(One) = One
    /\ (entry = "collatzChainLength" /\ pc = "done" /\ number # Zero) =>
           /\ Gt1(number) => ret = Inc(collatzChainLength(nextTerm(number)))
           /\ number = One => ret = One
           /\ ret # Zero
           /\ n = One

====
